---------------------------- MODULE Spec2Model ----------------------------
(***************************************************************************)
(* The /chat turn pipeline of KDD-RAG: src/api.py (chat, generate_response)*)
(* with the strategies of src/core, the generation call of                 *)
(* src/helpers/utils.py and the session store of src/db/unstructured_db.py.*)
(*                                                                         *)
(* Text is modelled as a sequence of symbols, so that concatenation,       *)
(* lower-casing and JSON encoding are computed and never assumed.          *)
(* One handler r is one run of chat(); its steps are the stretches of code *)
(* between two awaits / yields, where the event loop may run another       *)
(* handler.                                                                *)
(***************************************************************************)
EXTENDS Naturals, Sequences, FiniteSets, TLC

(* ------------------------------ bounds -------------------------------- *)

\* requests received in one behaviour
MaxTurns == 2
\* lines the generation backend's body holds at most
MaxLines == 3
\* lines of a body when several requests are interleaved
MaxSessionLines == 1
\* entities extract_entities returns at most
MaxEntities == 2

(* ------------------------------- text --------------------------------- *)

\* the letters str.lower() changes, and what it changes them to
UpperLetters == << "A","B","C","D","E","F","G","H","I","J","K","L","M",
                  "N","O","P","Q","R","S","T","U","V","W","X","Y","Z" >>
LowerLetters == << "a","b","c","d","e","f","g","h","i","j","k","l","m",
                  "n","o","p","q","r","s","t","u","v","w","x","y","z" >>

\* str.lower() on one character
LowerChar(c) ==
  IF \E i \in 1..Len(UpperLetters) : UpperLetters[i] = c
    THEN LowerLetters[CHOOSE i \in 1..Len(UpperLetters) : UpperLetters[i] = c]
    ELSE c

\* str.lower()
Lower(s) == [i \in 1..Len(s) |-> LowerChar(s[i])]

\* the keys of RAG_REGISTRY
RAG_REGISTRY == { <<"f","u","s","i","o","n">>,
                  <<"g","r","a","p","h">>,
                  <<"a","d","a","p","t","i","v","e">> }

FUSION == <<"f","u","s","i","o","n">>
GRAPH == <<"g","r","a","p","h">>
ADAPTIVE == <<"a","d","a","p","t","i","v","e">>

\* prompts.GENERATION_SYSTEM_PROMPT, one symbol standing for the fixed text
GENERATION_SYSTEM_PROMPT == <<"SYSTEM_PROMPT">>

\* prompts.GENERATION_PROMPT.format(question=..., context=...)
GENERATION_PROMPT(question, context) ==
  <<"Answer ... ### Context: ">> \o context \o <<"### question: ">> \o question

SystemTurn == [role |-> "system", content |-> GENERATION_SYSTEM_PROMPT]
UserTurn(q) == [role |-> "user", content |-> q]
AssistantTurn(a) == [role |-> "assistant", content |-> a]

\* the question of the n-th request: each request asks a question of its own,
\* which identifies its turn in every history
Question(n) == << "q", ToString(n) >>

\* str(uuid.uuid4()): the n-th identifier minted, different from every other
Uuid4(n) == ToString(n)

\* QueryInput.session_id: absent (None), empty, or an identifier the client holds
NoSession == "None"
ClientSessionIds == {"s1"}
SessionInputs == {NoSession, ""} \cup ClientSessionIds

\* QueryInput.rag_type: the default 'Fusion', other spellings, an unknown name
RagInputs == { <<"F","u","s","i","o","n">>,
               <<"G","R","A","P","H">>,
               <<"a","d","a","p","t","i","v","e">>,
               <<"n","a","i","v","e">> }

(* --------------------------- session store ---------------------------- *)

\* json.dumps(messages): the list as text, one <<role, content>> item per turn
JsonDumps(msgs) == [i \in 1..Len(msgs) |-> <<msgs[i].role, msgs[i].content>>]

\* json.loads(history_str)
JsonLoads(txt) == [i \in 1..Len(txt) |-> [role |-> txt[i][1], content |-> txt[i][2]]]

\* mutant: the update is applied to every document of the index
EsUpsertShared(docs, sid, msgs) ==
  [s \in DOMAIN docs \cup {sid} |-> [session_id |-> s, history |-> JsonDumps(msgs)]]

\* es_client.update(id=session_id, doc=..., doc_as_upsert=True): the documents after it
EsUpsert(docs, sid, msgs) ==
  [s \in DOMAIN docs \cup {sid} |->
     IF s = sid THEN [session_id |-> sid, history |-> JsonDumps(msgs)]
     ELSE docs[s]]

\* get_chat_history after the index check: the document's history, [] when the
\* get raises (404 for a missing document, or any other error)
EsGetHistory(docs, sid, outcome) ==
  IF outcome = "ok" /\ sid \in DOMAIN docs
    THEN JsonLoads(docs[sid].history)
    ELSE << >>

\* the history the store holds for a session, [] when it holds none
StoredHistory(d, sid) ==
  IF sid \in DOMAIN d THEN JsonLoads(d[sid].history) ELSE << >>

\* mutant: the system turn is put in front of every loaded history
SeedSystemAlways(msgs) == << SystemTurn >> \o msgs

\* api.py 54-55: seed an empty history with the system turn
SeedSystem(msgs) == IF msgs = << >> THEN << SystemTurn >> ELSE msgs

(* --------------------------- stream lines ----------------------------- *)

\* one line of response_stream.iter_lines()
\*   blank     b""                                   (skipped by `if line`)
\*   nondata   a line not starting with "data:"      (skipped)
\*   done      data: [DONE]
\*   delta     data: {"choices":[{"delta":{"content": c}}]}
\*   nocontent data: {"choices":[{"delta":{}}]}      (.get default "")
\*   malformed data: <not JSON, or JSON without choices[0].delta>
Tokens == { <<"a">>, <<"b">> }

LineKinds(tokens) ==
  { [kind |-> k, content |-> << >>] :
      k \in {"blank", "nondata", "done", "nocontent", "malformed"} }
  \cup { [kind |-> "delta", content |-> c] : c \in tokens }

\* api.py 70: token_data["choices"][0]["delta"].get("content", "")
DeltaContent(ln) == IF ln.kind = "delta" THEN ln.content ELSE << >>

\* mutant: the loop is left at the first token instead of at the end sentinel
LineEffectBreakEarly(ln) ==
  CASE ln.kind \in {"blank", "nondata"} -> "skip"
    [] ln.kind \in {"done", "delta", "nocontent"} -> "break"
    [] OTHER -> "raise"

\* mutant: a delta event without content is dropped instead of forwarded
LineEffectDropEmpty(ln) ==
  CASE ln.kind \in {"blank", "nondata", "nocontent"} -> "skip"
    [] ln.kind = "done" -> "break"
    [] ln.kind = "delta" -> "yield"
    [] OTHER -> "raise"

\* api.py 63-72: what the loop body does with one line
\*   "skip" | "break" | "yield" | "raise"
LineEffect(ln) ==
  CASE ln.kind \in {"blank", "nondata"} -> "skip"
    [] ln.kind = "done" -> "break"
    [] ln.kind \in {"delta", "nocontent"} -> "yield"
    [] OTHER -> "raise"

\* api.py 72, 74: one server-sent event
SseEvent(tok, sid) == [token |-> tok, session_id |-> sid]

(* ----------------------------- retrieval ------------------------------ *)

\* "\n".join(parts)
JoinLines(parts) ==
  LET RECURSIVE join(_)
      join(k) == IF k = 0 THEN << >>
                 ELSE IF k = 1 THEN parts[1]
                 ELSE join(k - 1) \o <<"\n">> \o parts[k]
  IN join(Len(parts))

\* ElasticsearchRetrievalManager.search: the page contents joined, "" on any error
\*   outcome: "hit" (documents found) | "empty" (none found) | "error" (raised)
VectorSearch(outcome) ==
  CASE outcome = "hit" -> JoinLines(<< <<"doc1">>, <<"doc2">> >>)
    [] outcome = "empty" -> JoinLines(<< >>)
    [] OTHER -> << >>

\* the rows one entity's graph.query returns
\*   outcome: "rows" | "norows"
GraphRows(outcome) == IF outcome = "rows" THEN << <<"e - REL -> n">> >> ELSE << >>

\* graph_db.py 246-247: result after one entity's rows
GraphAccumulate(result, rows) == result \o JoinLines(rows) \o <<"\n">>

\* mutant: an empty result is left out of the fused context, with its newline
FuseSkipEmpty(hybrid_res, g_res) ==
  IF hybrid_res = << >> THEN g_res
  ELSE IF g_res = << >> THEN hybrid_res
  ELSE hybrid_res \o <<"\n">> \o g_res

\* adaptive_rag.py 35: the fused context of class complex
Fuse(hybrid_res, g_res) == hybrid_res \o <<"\n">> \o g_res

\* whether sub occurs in s (Python's `sub in s`)
Contains(s, sub) ==
  \E i \in 0..(Len(s) - Len(sub)) :
     \A j \in 1..Len(sub) : s[i + j] = sub[j]

IRRELEVANT == <<"i","r","r","e","l","e","v","a","n","t">>
RELEVANT == <<"r","e","l","e","v","a","n","t">>
COMPLEX == <<"c","o","m","p","l","e","x">>

\* mutant: relevant is tried before irrelevant
valid_categories_relevant_first == << RELEVANT, IRRELEVANT, COMPLEX >>

\* adaptive_rag.py 61: valid_categories, in the order they are tried
valid_categories == << IRRELEVANT, RELEVANT, COMPLEX >>

\* mutant: the last valid category found in the output wins
ClassifyLast(category) ==
  LET found == { k \in 1..Len(valid_categories) :
                   Contains(Lower(category), Lower(valid_categories[k])) }
  IN IF found = {} THEN RELEVANT
     ELSE valid_categories[CHOOSE k \in found : \A m \in found : k >= m]

\* adaptive_rag.py 63-70: the first valid category found in the output, else relevant
Classify(category) ==
  LET found == { k \in 1..Len(valid_categories) :
                   Contains(Lower(category), Lower(valid_categories[k])) }
  IN IF found = {} THEN RELEVANT
     ELSE valid_categories[CHOOSE k \in found : \A m \in found : k <= m]

\* what the classifier's generation call may return: a category name, in any
\* letter case, two names in one text, or a text naming no category
ClassifierOutputs ==
  { IRRELEVANT, RELEVANT, COMPLEX,
    <<"C","o","m","p","l","e","x">>,
    <<"I","R","R","E","L","E","V","A","N","T">>,
    <<"R","e","l","e","v","a","n","t"," ","b","u","t"," ","C","o","m","p","l","e","x">>,
    <<"c","o","m","p","l","e","x",","," ","i","r","r","e","l","e","v","a","n","t">>,
    <<"s","i","m","p","l","e">>,
    << >> }

(* ------------------------------- state -------------------------------- *)

Handlers == {1, 2}

VARIABLES
  docs,        \* the chat_history index: session id -> document
  indexExists, \* whether the chat_history index exists
  minted,      \* uuids minted so far
  turns,       \* requests received so far
  chat         \* handler -> the locals of its run of chat(), and what it did

vars == << docs, indexExists, minted, turns, chat >>

\* The locals of one run of chat() (the fields keep the source's names):
\*   pc                  where the run stands
\*   request             the QueryInput
\*   session_id, messages                       chat()
\*   category, hybrid_res                       AdaptiveRAG.retrieve
\*   entities, result                           GraphDatabaseManager.search
\*   contexts                                   BaseRAG.__call__
\*   final_full_response                        generate_response
\* and what the run did, as its client and its backends saw it:
\*   nread     lines read from the generation response
\*   before    the session's stored history when the request arrived
\*   deltas    the tokens of the backend's delta events read, in order
\*   drained   the backend's end sentinel, or the end of its body, was read
\*   sentinel  the backend's end sentinel (data: [DONE]) was read
\*   output    the text the classifier's generation call returned
\*   sent      the message list given to the streaming generation call
\*   events    the server-sent events delivered to the client, in order
\*   status    the HTTP status sent: 0 (none yet), 200, 400, 500
\*   calls     the backend calls made and how each ended, in order
NoRequest == [question |-> << >>, rag_type |-> << >>, session_id |-> NoSession]

Idle ==
  [ pc |-> "idle", request |-> NoRequest, session_id |-> NoSession,
    messages |-> << >>, category |-> << >>, hybrid_res |-> << >>,
    entities |-> 0, result |-> << >>, contexts |-> << >>,
    final_full_response |-> << >>,
    nread |-> 0, before |-> << >>, deltas |-> << >>, drained |-> FALSE,
    sentinel |-> FALSE, output |-> << >>,
    sent |-> << >>, events |-> << >>,
    status |-> 0, calls |-> << >> ]

\* a history an earlier turn of session "s1" left in the store
EarlierHistory ==
  << SystemTurn, UserTurn(Question(0)), AssistantTurn(<<"a">>) >>

\* the store before the first request: no index, an empty index
NewStore ==
  /\ docs = << >>
  /\ indexExists \in BOOLEAN

\* the store of a deployment that has served session "s1" before
UsedStore ==
  /\ docs = EsUpsert(<< >>, "s1", EarlierHistory)
  /\ indexExists = TRUE

Init ==
  /\ NewStore \/ UsedStore
  /\ minted = 0
  /\ turns = 0
  /\ chat = [r \in Handlers |-> Idle]

\* the strategy chat() looked up: RAG_REGISTRY[request.rag_type.lower()]
Strategy(c) == Lower(c.request.rag_type)

\* mutant: the exception is swallowed and the response goes on to its end
RaiseSwallowed(c) == [c EXCEPT !.status = 200, !.pc = "commit"]

\* an exception leaves chat() before the response has started: HTTP 500
Raise(c) == [c EXCEPT !.pc = "failed", !.status = 500]

Called(c, name, outcome) == [c EXCEPT !.calls = Append(@, <<name, outcome>>)]

\* mutant: every strategy starts with the classifier
EnterRetrieveClassifies(c) == [c EXCEPT !.pc = "classify"]

\* BaseRAG.__call__ enters retrieve(): the first backend call of the strategy
EnterRetrieve(c) ==
  [c EXCEPT !.pc = CASE Strategy(c) = FUSION -> "search"
                     [] Strategy(c) = GRAPH -> "extract"
                     [] OTHER -> "classify"]

\* mutant: the strategy name is not validated
ValidRagTypeUnchecked(rt) == TRUE

\* api.py 37-38: `rag_type not in RAG_REGISTRY`, negated
ValidRagType(rt) == Lower(rt) \in RAG_REGISTRY

\* mutant: only an absent session id is replaced, an empty one is kept
NotSessionIdNoneOnly(sid) == sid = NoSession

\* api.py 47-50: `if not session_id`
NotSessionId(sid) == sid \in {NoSession, ""}


\* api.py 33-55 up to the first await: validate the strategy, resolve the session
Receive(r, rt, sid) ==
  /\ chat[r].pc = "idle"
  /\ turns' = turns + 1
  /\ LET c == [chat[r] EXCEPT
                 !.request = [question |-> Question(turns + 1),
                              rag_type |-> rt, session_id |-> sid],
                 !.before = StoredHistory(docs, sid)]
     IN IF ~ValidRagType(rt)
          THEN /\ chat' = [chat EXCEPT ![r] =
                             [c EXCEPT !.pc = "rejected", !.status = 400]]
               /\ UNCHANGED minted
          ELSE IF NotSessionId(sid)
            THEN /\ minted' = minted + 1
                 /\ chat' = [chat EXCEPT ![r] =
                      EnterRetrieve([c EXCEPT !.session_id = Uuid4(minted + 1),
                                              !.messages = SeedSystem(<< >>)])]
            ELSE /\ chat' = [chat EXCEPT ![r] =
                      [c EXCEPT !.session_id = sid, !.pc = "check_index"]]
                 /\ UNCHANGED minted
  /\ UNCHANGED << docs, indexExists >>

\* unstructured_db.py 185-187: await check_index_exists (outside the try)
CheckIndex(r, outcome) ==
  /\ chat[r].pc = "check_index"
  /\ LET c == Called(chat[r], "es_exists", outcome)
     IN chat' = [chat EXCEPT ![r] =
          IF outcome = "error" THEN Raise(c)
          ELSE IF ~indexExists
            THEN EnterRetrieve([c EXCEPT !.messages = SeedSystem(<< >>)])
            ELSE [c EXCEPT !.pc = "get"]]
  /\ UNCHANGED << docs, indexExists, minted, turns >>

\* unstructured_db.py 189-202, api.py 52-55: await es_client.get, then seed
GetHistory(r, outcome) ==
  /\ chat[r].pc = "get"
  /\ LET c == Called(chat[r], "es_get", outcome)
     IN chat' = [chat EXCEPT ![r] =
          EnterRetrieve([c EXCEPT !.messages =
             SeedSystem(EsGetHistory(docs, c.session_id, outcome))])]
  /\ UNCHANGED << docs, indexExists, minted, turns >>

\* mutant: every class is sent to the unstructured index
RouteAlwaysSearch(category) == "search"

\* adaptive_rag.py 25-31: where retrieve() goes with the class: class irrelevant
\* returns result = "" at once, the other two start with the unstructured index
Route(category) == IF category = IRRELEVANT THEN "generate" ELSE "search"

\* adaptive_rag.py 23, 51-70: _classify; call_model raises when the backend fails
ClassifyQuery(r, outcome, output) ==
  /\ chat[r].pc = "classify"
  /\ LET c == Called(chat[r], "classify", outcome)
         category == Classify(output)
     IN chat' = [chat EXCEPT ![r] =
          IF outcome = "error" THEN Raise(c)
          ELSE [c EXCEPT !.output = output, !.category = category,
                         !.pc = Route(category)]]
  /\ UNCHANGED << docs, indexExists, minted, turns >>

\* fusion_rag.py 23, adaptive_rag.py 28 and 33: await self.db_obj.search
Search(r, outcome) ==
  /\ chat[r].pc = "search"
  /\ LET c == Called(chat[r], "es_search", outcome)
         res == VectorSearch(outcome)
     IN chat' = [chat EXCEPT ![r] =
          IF Strategy(c) = ADAPTIVE /\ c.category = COMPLEX
            THEN [c EXCEPT !.hybrid_res = res, !.pc = "extract"]
            ELSE [c EXCEPT !.contexts = res, !.pc = "generate"]]
  /\ UNCHANGED << docs, indexExists, minted, turns >>

\* graph_db.py 248, graph_rag.py 18-21, adaptive_rag.py 34-37: search returns
GraphReturn(c) ==
  [c EXCEPT !.pc = "generate",
            !.contexts = IF Strategy(c) = GRAPH THEN c.result
                         ELSE Fuse(c.hybrid_res, c.result)]

\* graph_db.py 222-223: extract_entities (a generation call) and result = ""
ExtractEntities(r, outcome, n) ==
  /\ chat[r].pc = "extract"
  /\ LET c == Called(chat[r], "extract", outcome)
     IN chat' = [chat EXCEPT ![r] =
          IF outcome = "error" THEN Raise(c)
          ELSE IF n = 0 THEN GraphReturn([c EXCEPT !.result = << >>])
          ELSE [c EXCEPT !.entities = n, !.result = << >>, !.pc = "query"]]
  /\ UNCHANGED << docs, indexExists, minted, turns >>

\* graph_db.py 225-247: one entity's graph.query (not in any try)
GraphQuery(r, outcome) ==
  /\ chat[r].pc = "query"
  /\ LET c == Called(chat[r], "graph_query", outcome)
         d == [c EXCEPT !.entities = @ - 1,
                        !.result = GraphAccumulate(@, GraphRows(outcome))]
     IN chat' = [chat EXCEPT ![r] =
          IF outcome = "error" THEN Raise(c)
          ELSE IF d.entities = 0 THEN GraphReturn(d)
          ELSE d]
  /\ UNCHANGED << docs, indexExists, minted, turns >>

\* fusion_rag.py 29-35 (and its likes): the working copy given to the backend
MessagesCopy(c) ==
  Append(c.messages,
         UserTurn(GENERATION_PROMPT(c.request.question, c.contexts)))

\* mutant: the context-augmented prompt is what is kept as the user turn
AppendUserAugmented(c) ==
  Append(c.messages,
         UserTurn(GENERATION_PROMPT(c.request.question, c.contexts)))

\* mutant: generate() appends its prompt to the caller's list, not to a copy
AppendUserAliased(c) ==
  Append(Append(c.messages,
                UserTurn(GENERATION_PROMPT(c.request.question, c.contexts))),
         UserTurn(c.request.question))

\* api.py 58: messages.append({"role": "user", "content": request.question})
AppendUser(c) == Append(c.messages, UserTurn(c.request.question))

\* mutant: a generation call that fails is made once more
GenerateRetried(r, outcome) ==
  /\ chat[r].pc = "generate"
  /\ LET c == [Called(chat[r], "generate", outcome) EXCEPT !.sent = MessagesCopy(chat[r])]
     IN chat' = [chat EXCEPT ![r] =
          IF outcome = "unreachable"
            THEN (IF \A i \in 1..Len(chat[r].calls) : chat[r].calls[i][1] # "generate"
                    THEN c ELSE Raise(c))
          ELSE [c EXCEPT !.messages = AppendUser(c), !.status = 200,
                         !.pc = "stream"]]
  /\ UNCHANGED << docs, indexExists, minted, turns >>

\* base_rag.py 16-18, utils.py 23-26, api.py 56-58 and 88: the streaming
\* generation call; requests.post raises when the backend is unreachable, and
\* any response it returns is streamed with status 200
Generate(r, outcome) ==
  /\ chat[r].pc = "generate"
  /\ LET c == [Called(chat[r], "generate", outcome) EXCEPT !.sent = MessagesCopy(chat[r])]
     IN chat' = [chat EXCEPT ![r] =
          IF outcome = "unreachable" THEN Raise(c)
          ELSE [c EXCEPT !.messages = AppendUser(c), !.status = 200,
                         !.pc = "stream"]]
  /\ UNCHANGED << docs, indexExists, minted, turns >>

(* ------------------------- generate_response() ------------------------ *)

\* api.py 71: final_full_response += content
Accumulate(acc, content) == acc \o content

\* api.py 74: the end-of-stream event
TerminalEvent(c) == SseEvent(<< >>, c.session_id)

\* api.py 74: leave the loop and yield the end-of-stream event
EndStream(c) ==
  [c EXCEPT !.events = Append(@, TerminalEvent(c)), !.pc = "commit"]

\* what the backend's line says, whatever the handler makes of it
Observe(c, ln) ==
  [c EXCEPT !.nread = @ + 1,
            !.deltas = IF ln.kind \in {"delta", "nocontent"}
                         THEN Append(@, ln.content) ELSE @,
            !.drained = (ln.kind = "done"),
            !.sentinel = (ln.kind = "done")]

\* api.py 62-74: read one line of the response and handle it
ReadLine(r, ln) ==
  /\ chat[r].pc = "stream"
  /\ chat[r].nread < MaxLines
  /\ LET c == Observe(chat[r], ln)
         content == DeltaContent(ln)
     IN chat' = [chat EXCEPT ![r] =
          CASE LineEffect(ln) = "skip" -> c
            [] LineEffect(ln) = "break" -> EndStream(c)
            [] LineEffect(ln) = "yield" ->
                 [c EXCEPT !.final_full_response = Accumulate(@, content),
                           !.events = Append(@, SseEvent(content, c.session_id))]
            [] OTHER -> [c EXCEPT !.pc = "aborted"]]
  /\ UNCHANGED << docs, indexExists, minted, turns >>

\* mutant: a body that ends without the end sentinel ends the response as it is
EndOfBodyDropped(r) ==
  /\ chat[r].pc = "stream"
  /\ chat' = [chat EXCEPT ![r] = [chat[r] EXCEPT !.drained = TRUE, !.pc = "aborted"]]
  /\ UNCHANGED << docs, indexExists, minted, turns >>

\* mutant: a body without the end sentinel never ends (iter_lines() blocks)
EndOfBodyNever(r) ==
  /\ chat[r].pc = "stream"
  /\ chat[r].nread > MaxLines
  /\ UNCHANGED vars

\* api.py 62, 74: iter_lines() is exhausted without a [DONE] line
EndOfBody(r) ==
  /\ chat[r].pc = "stream"
  /\ chat' = [chat EXCEPT ![r] = EndStream([chat[r] EXCEPT !.drained = TRUE])]
  /\ UNCHANGED << docs, indexExists, minted, turns >>

\* mutant: an empty answer is not added to the history
AppendAssistantIfText(c) ==
  IF c.final_full_response = << >> THEN c.messages
  ELSE Append(c.messages, AssistantTurn(c.final_full_response))

\* api.py 75-78: messages.append({"role": "assistant", ...})
AppendAssistant(c) == Append(c.messages, AssistantTurn(c.final_full_response))

\* mutant: an update that raises has stored the document all the same
CommitWrittenOnError(r, outcome) ==
  /\ chat[r].pc = "commit"
  /\ LET c == [Called(chat[r], "es_update", outcome) EXCEPT !.messages = AppendAssistant(chat[r])]
     IN /\ docs' = EsUpsert(docs, c.session_id, c.messages)
        /\ indexExists' = TRUE
        /\ chat' = [chat EXCEPT ![r] =
                     [c EXCEPT !.pc = IF outcome = "ok" THEN "done" ELSE "store_failed"]]
  /\ UNCHANGED << minted, turns >>

\* api.py 75-86, unstructured_db.py 159-179: append the assistant turn and await
\* store_chat_history; an update that raises ends the generator after the last event
Commit(r, outcome) ==
  /\ chat[r].pc = "commit"
  /\ LET c == [Called(chat[r], "es_update", outcome) EXCEPT !.messages = AppendAssistant(chat[r])]
     IN IF outcome = "ok"
          THEN /\ docs' = EsUpsert(docs, c.session_id, c.messages)
               /\ indexExists' = TRUE
               /\ chat' = [chat EXCEPT ![r] = [c EXCEPT !.pc = "done"]]
          ELSE /\ chat' = [chat EXCEPT ![r] = [c EXCEPT !.pc = "store_failed"]]
               /\ UNCHANGED << docs, indexExists >>
  /\ UNCHANGED << minted, turns >>

\* mutant: the cancelled generator still stores what it has accumulated
DisconnectCommits(r) ==
  /\ chat[r].pc \in {"stream", "commit"}
  /\ docs' = EsUpsert(docs, chat[r].session_id, AppendAssistant(chat[r]))
  /\ chat' = [chat EXCEPT ![r].pc = "cancelled"]
  /\ UNCHANGED << indexExists, minted, turns >>

\* the client closes the connection while the generator is suspended at a yield:
\* the response task is cancelled and the generator never resumes
Disconnect(r) ==
  /\ chat[r].pc \in {"stream", "commit"}
  /\ chat' = [chat EXCEPT ![r].pc = "cancelled"]
  /\ UNCHANGED << docs, indexExists, minted, turns >>

Terminal == {"rejected", "failed", "aborted", "done", "store_failed", "cancelled"}

\* the run is over and its locals are gone; the worker may serve the next request
Release(r) ==
  /\ chat[r].pc \in Terminal
  /\ chat' = [chat EXCEPT ![r] = Idle]
  /\ UNCHANGED << docs, indexExists, minted, turns >>

(* --------------------------- specifications --------------------------- *)

\* the session ids a client may send: none, one it holds, or one the server
\* gave it in an event (interactive_chat.py 61) or keeps a history for
KnownSessionIds ==
  SessionInputs
    \cup DOMAIN docs
    \cup UNION { { chat[r].events[i].session_id : i \in 1..Len(chat[r].events) } :
                   r \in Handlers }

\* one request, with every input and every backend outcome, against a store
\* that is new or holds an earlier turn of the session
Next ==
  \/ /\ turns = 0
     /\ \E rt \in RagInputs, sid \in KnownSessionIds : Receive(1, rt, sid)
  \/ \E o \in {"ok", "error"} : CheckIndex(1, o)
  \/ \E o \in {"ok", "error"} : GetHistory(1, o)
  \/ \E o \in {"ok", "error"}, out \in ClassifierOutputs : ClassifyQuery(1, o, out)
  \/ \E o \in {"hit", "empty", "error"} : Search(1, o)
  \/ \E o \in {"ok", "error"}, n \in 0..MaxEntities : ExtractEntities(1, o, n)
  \/ \E o \in {"rows", "norows", "error"} : GraphQuery(1, o)
  \/ \E o \in {"response", "unreachable"} : Generate(1, o)
  \/ \E ln \in LineKinds(Tokens) : ReadLine(1, ln)
  \/ EndOfBody(1)
  \/ \E o \in {"ok", "error"} : Commit(1, o)
  \/ Disconnect(1)
  \/ Release(1)

Spec == Init /\ [][Next]_vars

\* QueryInput.rag_type's default (schemas.py 7)
DefaultRagType == <<"F","u","s","i","o","n">>

\* several requests on two handlers, which the event loop interleaves at their
\* awaits and yields; each uses the default strategy, its retrieval, its
\* generation call and its commit succeed, and its history load may fail
NextSessions ==
  \E r \in Handlers :
    \/ /\ turns < MaxTurns
       /\ \E sid \in KnownSessionIds : Receive(r, DefaultRagType, sid)
    \/ CheckIndex(r, "ok")
    \/ \E o \in {"ok", "error"} : GetHistory(r, o)
    \/ Search(r, "hit")
    \/ Generate(r, "response")
    \/ /\ chat[r].nread < MaxSessionLines
       /\ \E ln \in LineKinds({<<"a">>}) :
             ln.kind \in {"delta", "done"} /\ ReadLine(r, ln)
    \/ EndOfBody(r)
    \/ Commit(r, "ok")
    \/ Release(r)

SpecSessions == Init /\ [][NextSessions]_vars

\* one request whose client stays connected until the response has ended, with
\* every strategy and every backend outcome; each backend call returns or
\* raises, the backend's body is finite, and the event loop keeps running the
\* handler while it has a step to take
NextLive ==
  \/ /\ turns = 0
     /\ \E rt \in RagInputs, sid \in {NoSession} \cup ClientSessionIds :
          Receive(1, rt, sid)
  \/ \E o \in {"ok", "error"} : CheckIndex(1, o)
  \/ \E o \in {"ok", "error"} : GetHistory(1, o)
  \/ \E o \in {"ok", "error"}, out \in {IRRELEVANT, RELEVANT, COMPLEX} :
       ClassifyQuery(1, o, out)
  \/ \E o \in {"hit", "error"} : Search(1, o)
  \/ \E o \in {"ok", "error"}, n \in 0..MaxEntities : ExtractEntities(1, o, n)
  \/ \E o \in {"rows", "norows", "error"} : GraphQuery(1, o)
  \/ \E o \in {"response", "unreachable"} : Generate(1, o)
  \/ \E ln \in LineKinds({<<"a">>}) : ReadLine(1, ln)
  \/ EndOfBody(1)
  \/ \E o \in {"ok", "error"} : Commit(1, o)
  \/ Release(1)

SpecLive == Init /\ [][NextLive]_vars /\ WF_vars(NextLive)

(* ------------------------------ properties ---------------------------- *)

Last(seq) == seq[Len(seq)]

\* the tokens of a sequence of events, in order
EventTokens(evs) == [i \in 1..Len(evs) |-> evs[i].token]

\* the concatenation of a sequence of texts, in order
ConcatAll(texts) ==
  LET RECURSIVE cat(_)
      cat(k) == IF k = 0 THEN << >> ELSE cat(k - 1) \o texts[k]
  IN cat(Len(texts))

IsPrefix(a, b) == Len(a) <= Len(b) /\ \A i \in 1..Len(a) : a[i] = b[i]

\* the calls of a run that went to backend `name`
CallsTo(c, name) == { i \in 1..Len(c.calls) : c.calls[i][1] = name }

\* the run has returned its StreamingResponse and its generator ended by itself
StreamEnded(c) == c.pc \in {"aborted", "done", "store_failed"}

\* C1: once a turn is committed, loading its session from the store gives a
\* history whose last two entries are the user turn with the question as asked
\* and the assistant turn with the tokens sent to the client, concatenated in order.
C1_HistoryRoundTrip ==
  \A r \in Handlers :
    chat[r].pc = "done" =>
      LET h == EsGetHistory(docs, chat[r].session_id, "ok")
      IN /\ Len(h) >= 2
         /\ h[Len(h) - 1] = [role |-> "user", content |-> chat[r].request.question]
         /\ h[Len(h)] = [role |-> "assistant",
                         content |-> ConcatAll(EventTokens(chat[r].events))]

C1_Witness ==
  \E r \in Handlers :
    /\ chat[r].pc = "done"
    /\ EventTokens(chat[r].events) = << <<"a">>, <<"b">>, << >> >>
    /\ Len(chat[r].before) = 3
    /\ Len(StoredHistory(docs, chat[r].session_id)) = 5

\* C2: a request whose strategy name, lower-cased, is none of fusion, graph,
\* adaptive is answered with status 400 and has made no backend call at all
\* (no store read or write, no classifier, retrieval or generation call).
C2_UnknownStrategyRejected ==
  \A r \in Handlers :
    ( /\ chat[r].pc # "idle"
      /\ Lower(chat[r].request.rag_type) \notin {FUSION, GRAPH, ADAPTIVE} )
    => /\ chat[r].pc = "rejected"
       /\ chat[r].status = 400
       /\ chat[r].calls = << >>
       /\ chat[r].events = << >>
       /\ StoredHistory(docs, chat[r].request.session_id) = chat[r].before

C2_Witness ==
  \E r \in Handlers :
    /\ chat[r].pc = "rejected"
    /\ chat[r].status = 400
    /\ chat[r].request.rag_type = <<"n","a","i","v","e">>
    /\ chat[r].request.session_id = "s1"
    /\ Len(chat[r].before) = 3

\* C3: a response stream that has delivered at least one event and ended on the
\* server's side has the end-of-stream event (empty token) as its last event.
C3_StreamEndsWithTerminal ==
  \A r \in Handlers :
    (StreamEnded(chat[r]) /\ Len(chat[r].events) >= 1)
      => Last(chat[r].events).token = << >>

\* the calls to the generation backend that failed: the streaming call of
\* generate(), the classifier's call, the entity extraction's call
GenerationFailures ==
  { <<"generate", "unreachable">>, <<"classify", "error">>, <<"extract", "error">> }

\* C4: when a call to the generation backend fails, the request ends with an error
\* status, no event was sent, no store write was made and the session's stored
\* history is what it was when the request arrived.
C4_GenerationUnreachable ==
  \A r \in Handlers :
    ( /\ chat[r].calls # << >>
      /\ Last(chat[r].calls) \in GenerationFailures )
    => /\ chat[r].pc = "failed"
       /\ chat[r].status = 500
       /\ chat[r].events = << >>
       /\ CallsTo(chat[r], "es_update") = {}
       /\ StoredHistory(docs, chat[r].session_id) = chat[r].before

C4_Witness ==
  \E r \in Handlers :
    /\ chat[r].pc = "failed"
    /\ Last(chat[r].calls) = <<"generate", "unreachable">>
    /\ Len(chat[r].before) = 3
    /\ Len(chat[r].messages) = 3

\* C5: the client receives one event per token-delta event of the backend, with
\* its token, in the order read and as soon as read; when the stream ends one more
\* event with the empty token follows; and a turn committed on a session that
\* held no history leaves exactly the three entries system, user, assistant.
C5_TokensInOrderThenTerminal ==
  \A r \in Handlers :
    LET c == chat[r]
    IN /\ c.pc = "stream" => EventTokens(c.events) = c.deltas
       /\ c.pc \in {"commit", "done", "store_failed"} =>
            /\ EventTokens(c.events) = Append(c.deltas, << >>)
            /\ \A i \in 1..Len(c.events) : c.events[i].session_id = c.session_id
       /\ (c.pc = "done" /\ c.before = << >>) =>
            LET h == StoredHistory(docs, c.session_id)
            IN /\ Len(h) = 3
               /\ << h[1].role, h[2].role, h[3].role >> = << "system", "user", "assistant" >>

C5_Witness ==
  \E r \in Handlers :
    /\ chat[r].pc = "done"
    /\ chat[r].before = << >>
    /\ chat[r].nread = 3
    /\ chat[r].deltas = << <<"b">>, <<"a">> >>
    /\ Len(chat[r].events) = 3

\* the roles of a history, in order
Roles(h) == [i \in 1..Len(h) |-> h[i].role]

\* system, (user, assistant)*
WellShaped(h) ==
  /\ Len(h) % 2 = 1
  /\ \A i \in 1..Len(h) :
       h[i].role = IF i = 1 THEN "system"
                   ELSE IF i % 2 = 0 THEN "user" ELSE "assistant"

\* C6: every history in the store begins with the system turn carrying the fixed
\* generation instructions and holds no other system turn; so does the message
\* list of every request past its history load.
C6_OneLeadingSystemTurn ==
  /\ \A s \in DOMAIN docs :
       LET h == StoredHistory(docs, s)
       IN /\ h # << >>
          /\ h[1] = SystemTurn
          /\ \A i \in 2..Len(h) : h[i].role # "system"
  /\ \A r \in Handlers :
       LET m == chat[r].messages
       IN m # << >> =>
            /\ m[1] = SystemTurn
            /\ \A i \in 2..Len(m) : m[i].role # "system"

C6_Witness ==
  \E r \in Handlers :
    /\ chat[r].pc = "done"
    /\ chat[r].session_id = "1"
    /\ Len(chat[r].before) = 3
    /\ Roles(StoredHistory(docs, "1")) =
         << "system", "user", "assistant", "user", "assistant" >>

\* C7: a committed request leaves its session's stored history equal to the
\* history stored before it (seeded with the system turn if empty) followed by
\* exactly its user turn and its assistant turn.
C7_CommitExtendsByOneTurn ==
  \A r \in Handlers :
    chat[r].pc = "done" =>
      StoredHistory(docs, chat[r].session_id) =
        SeedSystem(chat[r].before)
          \o << UserTurn(chat[r].request.question),
                AssistantTurn(chat[r].final_full_response) >>

\* C7, the part about shape: every stored history is system, (user, assistant)*.
C7_StoredHistoriesWellShaped ==
  \A s \in DOMAIN docs : WellShaped(StoredHistory(docs, s))

\* C8: in every step, the history stored for a session before the step is a
\* prefix of the history stored for it after the step.
C8_AppendOnly ==
  [][ \A s \in DOMAIN docs :
        IsPrefix(StoredHistory(docs, s), StoredHistory(docs', s)) ]_vars

\* the run is between its history load and its history commit
InFlight(c) == c.pc \notin ({"idle", "rejected"} \cup Terminal)

\* C9: no two requests with the same session key are in flight at the same time.
C9_OneRequestPerSession ==
  \A r1, r2 \in Handlers :
    (r1 # r2 /\ InFlight(chat[r1]) /\ InFlight(chat[r2]))
      => chat[r1].session_id # chat[r2].session_id

\* a history holds the user turn of run c
HoldsTurnOf(h, c) ==
  \E i \in 1..Len(h) : h[i] = UserTurn(c.request.question)

\* C10: a request commits at most once, and only after the backend's stream was
\* drained and the end-of-stream event was sent; until then no stored history
\* holds its turn.
C10_CommitOnceAfterDrain ==
  \A r \in Handlers :
    LET c == chat[r]
    IN /\ Cardinality(CallsTo(c, "es_update")) <= 1
       /\ CallsTo(c, "es_update") # {} =>
            /\ c.drained
            /\ c.events # << >>
            /\ Last(c.events).token = << >>
            /\ c.pc \in {"done", "store_failed"}
       /\ (c.pc # "idle" /\ CallsTo(c, "es_update") = {}) =>
            \A s \in DOMAIN docs : ~HoldsTurnOf(StoredHistory(docs, s), c)

C10_Witness ==
  \E r1, r2 \in Handlers :
    /\ r1 # r2
    /\ chat[r1].pc = "stream"
    /\ chat[r1].events # << >>
    /\ chat[r2].pc = "done"
    /\ chat[r1].session_id = chat[r2].session_id

\* C11: a request whose client disconnected while the response was streaming has
\* stopped accumulating (nothing was sent beyond what was read by then), has made
\* no store write, and its session's stored history is what it was when the
\* request arrived.
C11_DisconnectNoCommit ==
  \A r \in Handlers :
    LET c == chat[r]
    IN c.pc = "cancelled" =>
         /\ CallsTo(c, "es_update") = {}
         /\ StoredHistory(docs, c.session_id) = c.before
         /\ ConcatAll(EventTokens(c.events)) = c.final_full_response
         /\ Last(c.messages) = UserTurn(c.request.question)

C11_Witness ==
  \E r \in Handlers :
    /\ chat[r].pc = "cancelled"
    /\ ~chat[r].drained
    /\ chat[r].final_full_response = <<"a">>
    /\ Len(chat[r].events) = 1
    /\ Len(chat[r].before) = 3

\* C12: when the backend's body ends without the end sentinel, the end-of-stream
\* event is still sent as the last event, and the commit stores the user turn
\* followed by the assistant turn holding the text accumulated until then.
C12_EarlyEndStillCommits ==
  \A r \in Handlers :
    LET c == chat[r]
        h == StoredHistory(docs, c.session_id)
    IN (c.drained /\ ~c.sentinel) =>
         /\ c.pc \in {"commit", "done", "store_failed", "cancelled"}
         /\ c.events # << >>
         /\ Last(c.events).token = << >>
         /\ c.pc = "done" =>
              /\ Len(h) >= 3
              /\ h[Len(h) - 1] = UserTurn(c.request.question)
              /\ h[Len(h)] = AssistantTurn(ConcatAll(c.deltas))

C12_Witness ==
  \E r \in Handlers :
    /\ chat[r].pc = "done"
    /\ chat[r].drained
    /\ ~chat[r].sentinel
    /\ chat[r].deltas = << <<"a">>, <<"b">> >>
    /\ Last(StoredHistory(docs, chat[r].session_id)) = AssistantTurn(<<"a", "b">>)

\* the request carried no usable session id: none, or the empty string
Unsupplied(c) == c.request.session_id \in {NoSession, ""}

\* C13: every event of a response carries the run's session id, which is never
\* empty: the request's id when it carried one, otherwise an id minted for this
\* request, which no client holds and no other such request was given; and a
\* committed turn is stored under that id and under no other.
C13_SessionIdOnEveryEvent ==
  \A r \in Handlers :
    LET c == chat[r]
    IN c.pc \notin {"idle", "rejected"} =>
         /\ c.session_id \notin {"", NoSession}
         /\ \A i \in 1..Len(c.events) : c.events[i].session_id = c.session_id
         /\ ~Unsupplied(c) => c.session_id = c.request.session_id
         /\ Unsupplied(c) =>
              /\ \E k \in 1..minted : c.session_id = Uuid4(k)
              /\ c.session_id \notin ClientSessionIds
              /\ \A r2 \in Handlers \ {r} :
                   (chat[r2].pc # "idle" /\ Unsupplied(chat[r2]))
                     => chat[r2].session_id # c.session_id
         /\ c.pc = "done" =>
              /\ c.session_id \in DOMAIN docs
              /\ docs[c.session_id].session_id = c.session_id
              /\ \A s \in DOMAIN docs :
                   HoldsTurnOf(StoredHistory(docs, s), c) => s = c.session_id

C13_Witness ==
  \E r1, r2 \in Handlers :
    /\ chat[r1].request.session_id = NoSession
    /\ chat[r2].request.session_id = ""
    /\ chat[r1].pc = "done"
    /\ Len(chat[r1].events) = 2
    /\ chat[r1].events[1].session_id = "1"
    /\ chat[r2].pc = "stream"
    /\ Len(chat[r2].events) = 1
    /\ chat[r2].events[1].session_id = "2"
    /\ HoldsTurnOf(StoredHistory(docs, "1"), chat[r1])

\* the classifier's call returned and the run holds its class
Classified(c) == c.category # << >>

\* the classifier's output names a category, whatever the letter case
Names(c, name) == Contains(Lower(c.output), name)

\* C14 as stated: an output containing "complex" in any letter case is classified
\* complex, whatever else it contains.
C14_ComplexAlwaysWins ==
  \A r \in Handlers :
    (Classified(chat[r]) /\ Names(chat[r], COMPLEX))
      => chat[r].category = COMPLEX

\* C14, amended: an output containing "complex" in any letter case is classified
\* complex exactly when it contains neither "irrelevant" nor "relevant"; when
\* "relevant" also appears the class is relevant (irrelevant if that appears).
C14_ComplexUnlessEarlierName ==
  \A r \in Handlers :
    LET c == chat[r]
        low == Lower(c.output)
        irrelevant == Contains(low, IRRELEVANT)
        relevant == Contains(low, RELEVANT)
    IN (Classified(c) /\ Contains(low, COMPLEX)) =>
         /\ c.category = COMPLEX <=> (~irrelevant /\ ~relevant)
         /\ (relevant /\ ~irrelevant) => c.category = RELEVANT
         /\ irrelevant => c.category = IRRELEVANT

C14_Witness ==
  \E r \in Handlers :
    /\ chat[r].output =
         <<"R","e","l","e","v","a","n","t"," ","b","u","t"," ","C","o","m","p","l","e","x">>
    /\ chat[r].category = RELEVANT
    /\ chat[r].pc = "generate"
    /\ CallsTo(chat[r], "extract") = {}

\* C15: the class is the first of irrelevant, relevant, complex that occurs in
\* the classifier's output, letter case ignored, and relevant when none occurs;
\* so it is always one of the three, and an output containing "irrelevant" is
\* never classified relevant.
C15_ClassifyFirstMatch ==
  \A r \in Handlers :
    LET c == chat[r]
        low == Lower(c.output)
        irrelevant == Contains(low, IRRELEVANT)
    IN Classified(c) =>
         /\ c.category \in {IRRELEVANT, RELEVANT, COMPLEX}
         /\ c.category =
              IF irrelevant THEN IRRELEVANT
              ELSE IF Contains(low, RELEVANT) THEN RELEVANT
              ELSE IF Contains(low, COMPLEX) THEN COMPLEX
              ELSE RELEVANT
         /\ irrelevant => c.category # RELEVANT

C15_Witness ==
  \E r \in Handlers :
    /\ chat[r].output = <<"I","R","R","E","L","E","V","A","N","T">>
    /\ chat[r].category = IRRELEVANT
    /\ chat[r].pc = "generate"
    /\ CallsTo(chat[r], "es_search") = {}

\* the run made a call to backend `name` that ended with `outcome`
Made(c, name, outcome) == \E i \in CallsTo(c, name) : c.calls[i][2] = outcome

\* the run's last call was to backend `name` and raised into chat()
FailedAt(c, name) ==
  /\ c.pc = "failed"
  /\ c.calls # << >>
  /\ Last(c.calls)[1] = name

\* C16: a failure of the classifier's generation call does not fail the request:
\* the class is relevant and the request goes on to retrieval.
C16_ClassifierNeverRaises ==
  \A r \in Handlers :
    Made(chat[r], "classify", "error") =>
      /\ ~FailedAt(chat[r], "classify")
      /\ chat[r].category = RELEVANT

\* retrieve() has returned and its context was given to generate()
PastRetrieve(c) ==
  \/ c.pc \in {"generate", "stream", "commit", "done", "store_failed",
               "aborted", "cancelled"}
  \/ FailedAt(c, "generate")

\* the calls the run made to the graph backend (entity extraction and queries)
GraphCalls(c) == CallsTo(c, "extract") \cup CallsTo(c, "graph_query")

\* C17: in the adaptive strategy, class irrelevant calls no retrieval backend and
\* gives the empty context; class relevant calls the unstructured index exactly
\* once and never the graph backend; class complex calls the unstructured index
\* once and then the graph backend.
C17_RoutingByClass ==
  \A r \in Handlers :
    LET c == chat[r]
        n_search == Cardinality(CallsTo(c, "es_search"))
    IN (Strategy(c) = ADAPTIVE /\ Classified(c)) =>
         /\ c.category = IRRELEVANT =>
              /\ n_search = 0
              /\ GraphCalls(c) = {}
              /\ PastRetrieve(c)
              /\ c.contexts = << >>
         /\ c.category = RELEVANT =>
              /\ GraphCalls(c) = {}
              /\ n_search <= 1
              /\ PastRetrieve(c) => n_search = 1
         /\ c.category = COMPLEX =>
              /\ n_search <= 1
              /\ GraphCalls(c) # {} => n_search = 1
              /\ PastRetrieve(c) =>
                   (n_search = 1 /\ Cardinality(CallsTo(c, "extract")) = 1)

C17_Witness ==
  \E r \in Handlers :
    /\ Strategy(chat[r]) = ADAPTIVE
    /\ chat[r].category = COMPLEX
    /\ chat[r].pc = "done"
    /\ Made(chat[r], "es_search", "hit")
    /\ Made(chat[r], "graph_query", "rows")

\* C18: for class complex the context given to generation is the unstructured
\* index's result, a newline, the graph backend's result, whatever the two
\* results are, empty ones included.
C18_FusedContext ==
  \A r \in Handlers :
    LET c == chat[r]
    IN (Strategy(c) = ADAPTIVE /\ c.category = COMPLEX /\ PastRetrieve(c)) =>
         /\ \E o \in {"hit", "empty", "error"} :
              Made(c, "es_search", o) /\ c.hybrid_res = VectorSearch(o)
         /\ c.contexts = c.hybrid_res \o <<"\n">> \o c.result
         /\ c.sent # << >> =>
              Last(c.sent).content =
                GENERATION_PROMPT(c.request.question,
                                  c.hybrid_res \o <<"\n">> \o c.result)

C18_Witness ==
  \E r \in Handlers :
    /\ Strategy(chat[r]) = ADAPTIVE
    /\ chat[r].category = COMPLEX
    /\ chat[r].pc = "stream"
    /\ Made(chat[r], "es_search", "empty")
    /\ chat[r].hybrid_res = << >>
    /\ chat[r].result = << >>
    /\ chat[r].contexts = <<"\n">>

\* C19: an error raised by a retrieval backend (the unstructured index or the
\* graph backend) does not fail the request, and the run goes on with that
\* backend's part of the context empty.
C19_RetrievalErrorsRecovered ==
  \A r \in Handlers :
    LET c == chat[r]
    IN /\ ~FailedAt(c, "es_search")
       /\ ~FailedAt(c, "graph_query")
       /\ (Made(c, "es_search", "error") /\ c.pc # "search")
            => IF Strategy(c) = ADAPTIVE /\ c.category = COMPLEX
                 THEN c.hybrid_res = << >>
                 ELSE c.contexts = << >>

\* C20: a failure of the store while the history is loaded, in the index check
\* or in the document fetch, does not fail the request: it goes on with the
\* history holding the system turn only.
C20_StoreReadRecovered ==
  \A r \in Handlers :
    LET c == chat[r]
    IN /\ ~FailedAt(c, "es_exists")
       /\ ~FailedAt(c, "es_get")
       /\ (Made(c, "es_exists", "error") \/ Made(c, "es_get", "error"))
            => (c.messages # << >> /\ c.messages[1] = SystemTurn)

\* C21: when the store's update raises, the client has already received one event
\* per delta read and then the end-of-stream event, with status 200; the stored
\* history of the session is what it was when the request arrived, so the turn
\* is absent from it, and nothing else in the store changed.
C21_WriteFailureAfterDelivery ==
  \A r \in Handlers :
    LET c == chat[r]
    IN Made(c, "es_update", "error") =>
         /\ c.pc = "store_failed"
         /\ c.status = 200
         /\ EventTokens(c.events) = Append(c.deltas, << >>)
         /\ Last(c.calls) = <<"es_update", "error">>
         /\ StoredHistory(docs, c.session_id) = c.before
         /\ \A s \in DOMAIN docs : ~HoldsTurnOf(StoredHistory(docs, s), c)

C21_Witness ==
  \E r \in Handlers :
    /\ chat[r].pc = "store_failed"
    /\ EventTokens(chat[r].events) = << <<"a">>, <<"b">>, << >> >>
    /\ Len(chat[r].before) = 3
    /\ Len(chat[r].messages) = 5

\* the text is a generation prompt (question and context in the fixed frame)
IsGenerationPrompt(txt) ==
  txt # << >> /\ txt[1] = GENERATION_PROMPT(<< >>, << >>)[1]

\* the history get_chat_history gave the run, seeded: the stored one when the
\* document fetch succeeded, else the empty one
Loaded(c) ==
  SeedSystem(IF Made(c, "es_get", "ok") THEN c.before ELSE << >>)

\* C22: the message list sent to the generation backend is the loaded history
\* followed by exactly one user turn holding the generation prompt built from the
\* question and the context; the run's own list never holds a generation prompt:
\* it is the loaded history when the call fails, and after the call the loaded
\* history, the question as asked and (once streamed) the answer; no stored
\* history holds a generation prompt.
C22_PromptOnlyInWorkingCopy ==
  /\ \A r \in Handlers :
       LET c == chat[r]
           user == UserTurn(c.request.question)
       IN /\ \A i \in 1..Len(c.messages) : ~IsGenerationPrompt(c.messages[i].content)
          /\ c.sent # << >> =>
               /\ c.sent = Append(Loaded(c),
                      UserTurn(GENERATION_PROMPT(c.request.question, c.contexts)))
               /\ IsGenerationPrompt(Last(c.sent).content)
               /\ c.messages =
                    CASE c.pc = "failed" -> Loaded(c)
                      [] c.pc \in {"done", "store_failed"} ->
                           Loaded(c) \o << user, AssistantTurn(c.final_full_response) >>
                      [] OTHER -> Append(Loaded(c), user)
  /\ \A s \in DOMAIN docs :
       \A i \in 1..Len(StoredHistory(docs, s)) :
         ~IsGenerationPrompt(StoredHistory(docs, s)[i].content)

C22_Witness ==
  \E r \in Handlers :
    /\ chat[r].pc = "done"
    /\ chat[r].contexts = VectorSearch("hit")
    /\ Len(chat[r].sent) = 4
    /\ Len(StoredHistory(docs, chat[r].session_id)) = 5

\* the place of a backend call in the pipeline: session load, classification,
\* retrieval (unstructured index, then graph), generation, history save
Stage(name) ==
  CASE name = "es_exists" -> 1
    [] name = "es_get" -> 2
    [] name = "classify" -> 3
    [] name = "es_search" -> 4
    [] name = "extract" -> 5
    [] name = "graph_query" -> 6
    [] name = "generate" -> 7
    [] name = "es_update" -> 8

\* the number of calls the run made to backend `name`
Count(c, name) == Cardinality(CallsTo(c, name))

C24_ClassifierOnlyForAdaptive ==
  \A r \in Handlers :
    LET c == chat[r]
    IN /\ (c.pc # "idle" /\ Strategy(c) = FUSION) =>
            /\ Count(c, "classify") = 0
            /\ GraphCalls(c) = {}
            /\ Count(c, "es_search") <= 1
            /\ PastRetrieve(c) => Count(c, "es_search") = 1
       /\ (c.pc # "idle" /\ Strategy(c) = GRAPH) =>
            /\ Count(c, "classify") = 0
            /\ Count(c, "es_search") = 0
            /\ Count(c, "extract") <= 1
            /\ PastRetrieve(c) => Count(c, "extract") = 1

C24_Witness ==
  \E r \in Handlers :
    /\ Strategy(chat[r]) = GRAPH
    /\ chat[r].request.rag_type = <<"G","R","A","P","H">>
    /\ chat[r].pc = "stream"
    /\ Made(chat[r], "graph_query", "rows")
    /\ chat[r].contexts # << >>

\* C25: a graph query that raises for one entity does not end the graph search:
\* the run goes on to the next entity, or returns what the other entities gave,
\* and the request does not fail there.
C25_EntityFailureSkipped ==
  \A r \in Handlers :
    Made(chat[r], "graph_query", "error")
      => (chat[r].pc = "query" \/ PastRetrieve(chat[r]))

\* the graph search has returned without any entity's query giving a row
\* (no entity extracted, or every query answered with no row)
EmptyResultSet(c) ==
  /\ Made(c, "extract", "ok")
  /\ PastRetrieve(c)
  /\ \A i \in CallsTo(c, "graph_query") : c.calls[i][2] = "norows"

\* C26: when no entity's traversal returns a row, for any number of extracted
\* entities, the graph search's result is the empty string.
C26_EmptyResultSetEmptyString ==
  \A r \in Handlers :
    EmptyResultSet(chat[r]) => chat[r].result = << >>

\* PERSISTED: the end-of-stream event was sent and the commit was attempted
Persisted(c) == c.pc \in {"done", "store_failed"}

\* FAILED: an exception ended the request, before the response or while streaming
Failed(c) == c.pc \in {"failed", "aborted"}

\* C27: a request with a registered strategy, whose client stays connected and
\* whose backend body is finite, eventually is PERSISTED or FAILED (it does not
\* stay in streaming, nor in any earlier step, forever); and a PERSISTED request
\* has a loaded history, then a generation call that returned after its
\* retrieval, then the end-of-stream event, then exactly one commit attempt.
C27_EventuallyTerminal ==
  /\ \A r \in Handlers :
       (chat[r].pc \notin {"idle", "rejected"})
         ~> (Persisted(chat[r]) \/ Failed(chat[r]))
  /\ [](\A r \in Handlers :
          LET c == chat[r]
          IN Persisted(c) =>
               /\ c.messages[1] = SystemTurn
               /\ SubSeq(c.messages, 1, Len(c.messages) - 2) = Loaded(c)
               /\ Made(c, "generate", "response")
               /\ c.drained
               /\ Last(c.events).token = << >>
               /\ Count(c, "es_update") = 1
               /\ Last(c.calls)[1] = "es_update"
               /\ c.calls[Len(c.calls) - 1][1] = "generate")

C27_Witness ==
  \E r \in Handlers :
    /\ chat[r].pc = "store_failed"
    /\ chat[r].nread = MaxLines
    /\ ~chat[r].sentinel
    /\ Strategy(chat[r]) = ADAPTIVE
    /\ chat[r].category = COMPLEX

\* C28: an event with the empty token is the last event of its response: every
\* event sent before another one, or while the backend's body is still being
\* read, carries a token that is not empty.
C28_EmptyTokenOnlyLast ==
  \A r \in Handlers :
    LET c == chat[r]
    IN \A i \in 1..Len(c.events) :
         c.events[i].token = << >> =>
           (i = Len(c.events) /\ c.pc # "stream")

\* the sessions whose stored document a step creates or changes
Written ==
  { s \in DOMAIN docs' : s \notin DOMAIN docs \/ docs'[s] # docs[s] }

\* C29: a request reads and writes only the store entry of its own session: a
\* history load gives the run its session's stored history (or none), a step
\* changes a document only as the commit of a run of that session, storing that
\* run's list, and no document is removed; so when two requests on different
\* sessions interleave, the history each one commits is its session's history
\* at arrival (as loaded), its question and its answer, as if it ran alone.
C29_SessionsIsolated ==
  /\ [][ /\ DOMAIN docs \subseteq DOMAIN docs'
         /\ \A s \in Written :
              \E r \in Handlers :
                /\ chat[r].pc = "commit"
                /\ chat'[r].pc = "done"
                /\ chat[r].session_id = s
                /\ Written = {s}
                /\ StoredHistory(docs', s) = chat'[r].messages
         /\ \A r \in Handlers :
              (chat[r].pc = "get" /\ chat'[r].pc # "get") =>
                chat'[r].messages \in
                  { SeedSystem(StoredHistory(docs, chat[r].session_id)),
                    << SystemTurn >> } ]_vars
  /\ [](\A r1, r2 \in Handlers :
          ( /\ r1 # r2
            /\ turns <= Cardinality(Handlers)
            /\ chat[r1].pc = "done"
            /\ chat[r2].pc # "idle"
            /\ chat[r1].session_id # chat[r2].session_id )
          => StoredHistory(docs, chat[r1].session_id) =
               Loaded(chat[r1])
                 \o << UserTurn(chat[r1].request.question),
                       AssistantTurn(chat[r1].final_full_response) >>)

C29_Witness ==
  \E r1, r2 \in Handlers :
    /\ chat[r1].request.question = Question(1)
    /\ chat[r2].request.question = Question(2)
    /\ chat[r1].session_id = "s1"
    /\ chat[r2].session_id = "1"
    /\ chat[r1].pc = "commit"
    /\ chat[r2].pc = "done"
    /\ Len(chat[r1].before) = 3
    /\ Len(StoredHistory(docs, "1")) = 3
    /\ Len(StoredHistory(docs, "s1")) = 3

\* C30: when the body the generation call returned holds no token data line
\* (only lines without the data: prefix, blank lines, the end sentinel, or
\* nothing), the request
\* does not fail: the response has status 200, its only event is the
\* end-of-stream event, and the commit stores the user turn followed by an
\* assistant turn with empty content.
C30_BodyWithoutTokens ==
  \A r \in Handlers :
    LET c == chat[r]
        h == StoredHistory(docs, c.session_id)
    IN (c.drained /\ c.deltas = << >>) =>
         /\ c.status = 200
         /\ c.pc \in {"commit", "done", "store_failed", "cancelled"}
         /\ c.events = << SseEvent(<< >>, c.session_id) >>
         /\ c.pc = "done" =>
              /\ h = c.messages
              /\ Len(h) >= 3
              /\ h[Len(h) - 1] = UserTurn(c.request.question)
              /\ h[Len(h)] = AssistantTurn(<< >>)

C30_Witness ==
  \E r \in Handlers :
    /\ chat[r].pc = "done"
    /\ chat[r].nread = 2
    /\ chat[r].drained
    /\ ~chat[r].sentinel
    /\ chat[r].deltas = << >>
    /\ Len(chat[r].events) = 1
    /\ Last(StoredHistory(docs, chat[r].session_id)) = AssistantTurn(<< >>)

=============================================================================
